---------------------------- MODULE Spec2Model ----------------------------
(***************************************************************************)
(* The C-calling-convention lowering of call sites of the fmm IR            *)
(* (src/fmm/src/analysis/c_calling_convention/call.rs) over the IR's        *)
(* instruction and block model (src/fmm/src/ir).                            *)
(*                                                                          *)
(* The pass is a pure function of one function definition.  The state is    *)
(* the definition handed to the pass and the Result it returns.             *)
(*                                                                          *)
(* The module-level builders (src/fmm/src/build/module_builder.rs and       *)
(* module_state.rs) are a second state machine: the state is the builder,   *)
(* the function bodies that are running, what the last call returned, and   *)
(* the record of the names produced and of the items added.                 *)
(***************************************************************************)
EXTENDS Integers, Sequences, FiniteSets, TLC

VARIABLES definition, result, pc,
          module_builder, frames, outcome, names, calls

pass_vars == <<definition, result, pc>>

builder_vars == <<module_builder, frames, outcome, names, calls>>

vars == <<definition, result, pc, module_builder, frames, outcome, names, calls>>

(***************************************************************************)
(* Bounds of the model.                                                     *)
(***************************************************************************)
\* The size of a function body: one per instruction, plus one per argument
\* of a call, counted through nested If branches.
MaxSize == 3

\* The word size the tests of the pass run with.
WORD_BYTES == 8

Min(a, b) == IF a < b THEN a ELSE b

(***************************************************************************)
(* Option and Result values.                                                *)
(***************************************************************************)
None == [some |-> FALSE]
Some(v) == [some |-> TRUE, value |-> v]

Ok(v) == [ok |-> TRUE, value |-> v]
Err(e) == [ok |-> FALSE, error |-> e]

(***************************************************************************)
(* Types (types::Type): structural values, so equality is structural.       *)
(***************************************************************************)
Primitive(p) == [kind |-> "Primitive", primitive |-> p]
Pointer(element) == [kind |-> "Pointer", element |-> element]
Record(elements) == [kind |-> "Record", elements |-> elements]
Function(arguments, result_, calling_convention) ==
    [kind |-> "Function", arguments |-> arguments, result |-> result_,
     calling_convention |-> calling_convention]

Integer64 == Primitive("Integer64")
PointerInteger == Primitive("PointerInteger")
void_type == Record(<<>>)

\* The record type of the pass's tests: three 64-bit integers.
Record3 == Record(<<Integer64, Integer64, Integer64>>)

(***************************************************************************)
(* Expressions.                                                             *)
(***************************************************************************)
Variable(n) == [expr |-> "Variable", name |-> n]
Undefined(type_) == [expr |-> "Undefined", type_ |-> type_]
void_value == [expr |-> "Record", type_ |-> void_type, elements |-> <<>>]

TypedExpression(expression, type_) == [expression |-> expression, type_ |-> type_]

(***************************************************************************)
(* Instructions (ir::Instruction), terminal instructions and blocks.        *)
(***************************************************************************)
AllocateStack(type_, n) == [op |-> "AllocateStack", type_ |-> type_, name |-> n]
Store(type_, value, pointer) ==
    [op |-> "Store", type_ |-> type_, value |-> value, pointer |-> pointer]
Load(type_, pointer, n) ==
    [op |-> "Load", type_ |-> type_, pointer |-> pointer, name |-> n]
Call(type_, function, arguments, n) ==
    [op |-> "Call", type_ |-> type_, function |-> function,
     arguments |-> arguments, name |-> n]
If(type_, condition, then, else_, n) ==
    [op |-> "If", type_ |-> type_, condition |-> condition,
     then |-> then, else_ |-> else_, name |-> n]

Return(type_, expression) ==
    [op |-> "Return", type_ |-> type_, expression |-> expression]

Block(instructions, terminal_instruction) ==
    [instructions |-> instructions, terminal_instruction |-> terminal_instruction]

\* Instruction::name
name(instruction) ==
    IF instruction.op \in {"AtomicStore", "FreeHeap", "Store"}
    THEN None
    ELSE Some(instruction.name)

\* Instruction::result_type, for the instruction kinds of this model
result_type(instruction) ==
    CASE instruction.op = "AllocateStack" -> Some(Pointer(instruction.type_))
      [] instruction.op = "Call" -> Some(instruction.type_.result)
      [] instruction.op = "If" -> Some(instruction.type_)
      [] instruction.op = "Load" -> Some(instruction.type_)
      [] instruction.op \in {"AtomicStore", "FreeHeap", "Store"} -> None

(***************************************************************************)
(* Function definitions.                                                    *)
(***************************************************************************)
Argument(n, type_) == [name |-> n, type_ |-> type_]

FunctionDefinitionOptions(calling_convention) ==
    [calling_convention |-> calling_convention, linkage |-> "External"]

FunctionDefinition(n, arguments, result_, body, options) ==
    [name |-> n, arguments |-> arguments, result_type |-> result_,
     body |-> body, options |-> options]


\* Context::new: the target's parameters
Context(word_bytes) == [word_bytes |-> word_bytes]

(***************************************************************************)
(* Type classification and signature rewriting                              *)
(* (c_calling_convention::type_, used by the pass at call.rs:48,60,71).     *)
(***************************************************************************)
\* How many machine words an aggregate may occupy and still be passed by
\* value.
REGISTER_WORDS == 2

primitive_size(word_bytes, p) ==
    CASE p \in {"Bool", "Integer8"} -> 1
      [] p \in {"Float32", "Integer32"} -> 4
      [] p \in {"Float64", "Integer64"} -> 8
      [] p = "PointerInteger" -> word_bytes

RECURSIVE size_of(_, _)
RECURSIVE sum_sizes(_, _, _)

\* The sum of the sizes of elements[i..]
sum_sizes(word_bytes, elements, i) ==
    IF i > Len(elements) THEN 0
    ELSE size_of(word_bytes, elements[i]) + sum_sizes(word_bytes, elements, i + 1)

size_of(word_bytes, type_) ==
    CASE type_.kind = "Primitive" -> primitive_size(word_bytes, type_.primitive)
      [] type_.kind \in {"Pointer", "Function"} -> word_bytes
      [] type_.kind = "Record" -> sum_sizes(word_bytes, type_.elements, 1)

\* type_::is_memory_class: an aggregate too large for the register budget
is_memory_class(context, type_) ==
    /\ type_.kind = "Record"
    /\ size_of(context.word_bytes, type_) > REGISTER_WORDS * context.word_bytes

\* A memory-class argument type becomes a pointer to itself
transform_function_argument(context, type_) ==
    IF is_memory_class(context, type_) THEN Pointer(type_) ELSE type_

\* type_::transform_function: the native function type of a function type
transform_function(context, function) ==
    IF function.calling_convention # "Target" THEN function
    ELSE LET is_result_memory == is_memory_class(context, function.result)
             arguments == [i \in 1..Len(function.arguments) |->
                 transform_function_argument(context, function.arguments[i])]
         IN Function(
                (IF is_result_memory THEN <<Pointer(function.result)>> ELSE <<>>)
                    \o arguments,
                IF is_result_memory THEN void_type ELSE function.result,
                function.calling_convention)

(***************************************************************************)
(* The name generator and the instruction builder                           *)
(* (build::NameGenerator, build::InstructionBuilder, used by the pass at    *)
(* call.rs:44-46,61-65,72-96).                                              *)
(***************************************************************************)
\* NameGenerator::new
NameGenerator(prefix) == [prefix |-> prefix, index |-> 0]

\* NameGenerator::generate: the prefix followed by the counter, which it
\* increments
generate(name_generator) ==
    [name |-> name_generator.prefix \o ToString(name_generator.index),
     name_generator |-> [name_generator EXCEPT !.index = @ + 1]]

\* InstructionBuilder::new
InstructionBuilder(name_generator) ==
    [name_generator |-> name_generator, instructions |-> <<>>]

\* InstructionBuilder::add_instruction
builder_add_instruction(builder, instruction) ==
    [builder EXCEPT !.instructions = Append(@, instruction)]

\* InstructionBuilder::allocate_stack: the builder afterwards and the
\* pointer to the slot
builder_allocate_stack(builder, type_) ==
    LET generated == generate(builder.name_generator)
    IN [builder |-> builder_add_instruction(
                        [builder EXCEPT !.name_generator = generated.name_generator],
                        AllocateStack(type_, generated.name)),
        value |-> TypedExpression(Variable(generated.name), Pointer(type_))]

\* InstructionBuilder::store
builder_store(builder, value, pointer) ==
    builder_add_instruction(
        builder, Store(value.type_, value.expression, pointer.expression))

\* InstructionBuilder::call: a Result of the builder afterwards
builder_call(builder, function, arguments) ==
    IF function.type_.kind # "Function"
    THEN Err("FunctionExpected")
    ELSE LET generated == generate(builder.name_generator)
         IN Ok(builder_add_instruction(
                   [builder EXCEPT !.name_generator = generated.name_generator],
                   Call(function.type_, function.expression,
                        [i \in 1..Len(arguments) |-> arguments[i].expression],
                        generated.name)))

\* InstructionBuilder::into_instructions
builder_into_instructions(builder) == builder.instructions

(***************************************************************************)
(* The pass (call.rs).                                                      *)
(***************************************************************************)
RECURSIVE transform_block(_, _)
RECURSIVE transform_instruction(_, _)
RECURSIVE collect_results(_, _, _)
RECURSIVE transform_arguments(_, _, _, _, _)
RECURSIVE flatten(_)

\* transform_argument with the value pushed where the pointer belongs: the
\* slot is filled and never passed
transform_argument_passing_value(context, state, argument_, type_) ==
    LET argument == TypedExpression(argument_, type_)
    IN IF is_memory_class(context, type_)
       THEN LET pointer == builder_allocate_stack(state.builder, type_)
            IN [builder |-> builder_store(pointer.builder, argument, pointer.value),
                arguments |-> Append(state.arguments, argument)]
       ELSE [builder |-> state.builder,
             arguments |-> Append(state.arguments, argument)]

\* transform_argument without the test of the class: every argument is
\* spilled
transform_argument_always_spilled(context, state, argument_, type_) ==
    LET argument == TypedExpression(argument_, type_)
        pointer == builder_allocate_stack(state.builder, type_)
    IN [builder |-> builder_store(pointer.builder, argument, pointer.value),
        arguments |-> Append(state.arguments, pointer.value)]

\* call.rs:58-68, the body of the loop over the arguments: state is the
\* builder and the arguments of the rewritten call collected so far
transform_argument(context, state, argument_, type_) ==
    LET argument == TypedExpression(argument_, type_)
    IN IF is_memory_class(context, type_)
       THEN LET pointer == builder_allocate_stack(state.builder, type_)
            IN [builder |-> builder_store(pointer.builder, argument, pointer.value),
                arguments |-> Append(state.arguments, pointer.value)]
       ELSE [builder |-> state.builder,
             arguments |-> Append(state.arguments, argument)]

\* call.rs:53-69, the loop over call.arguments().iter().zip(types): zip stops
\* at the shorter of the two
transform_arguments(context, state, arguments, types_, i) ==
    IF i > Min(Len(arguments), Len(types_)) THEN state
    ELSE transform_arguments(
             context,
             transform_argument(context, state, arguments[i], types_[i]),
             arguments, types_, i + 1)

\* transform_result with the pointer to the result chained after the
\* arguments instead of before them
transform_result_pointer_last(context, state, call, function, function_type) ==
    LET original_function_type == call.type_
    IN IF is_memory_class(context, original_function_type.result)
       THEN LET pointer == builder_allocate_stack(
                               state.builder, original_function_type.result)
                called == builder_call(pointer.builder, function,
                                       state.arguments \o <<pointer.value>>)
            IN IF ~called.ok THEN called
               ELSE Ok(builder_into_instructions(
                        builder_add_instruction(
                            called.value,
                            Load(original_function_type.result,
                                 pointer.value.expression, call.name))))
       ELSE Ok(builder_into_instructions(
                builder_add_instruction(
                    state.builder,
                    Call(function_type, function.expression,
                         [i \in 1..Len(state.arguments) |->
                             state.arguments[i].expression],
                         call.name))))

\* transform_result with the Load bound to a generated name instead of the
\* name of the call
transform_result_load_renamed(context, state, call, function, function_type) ==
    LET original_function_type == call.type_
    IN IF is_memory_class(context, original_function_type.result)
       THEN LET pointer == builder_allocate_stack(
                               state.builder, original_function_type.result)
                called == builder_call(pointer.builder, function,
                                       <<pointer.value>> \o state.arguments)
            IN IF ~called.ok THEN called
               ELSE Ok(builder_into_instructions(
                        builder_add_instruction(
                            called.value,
                            Load(original_function_type.result,
                                 pointer.value.expression,
                                 generate(called.value.name_generator).name))))
       ELSE Ok(builder_into_instructions(
                builder_add_instruction(
                    state.builder,
                    Call(function_type, function.expression,
                         [i \in 1..Len(state.arguments) |->
                             state.arguments[i].expression],
                         call.name))))

\* transform_result with the call of a result that is not of memory class
\* appended through the builder as well, which binds it to a generated name
transform_result_through_builder(context, state, call, function, function_type) ==
    LET original_function_type == call.type_
    IN IF is_memory_class(context, original_function_type.result)
       THEN LET pointer == builder_allocate_stack(
                               state.builder, original_function_type.result)
                called == builder_call(pointer.builder, function,
                                       <<pointer.value>> \o state.arguments)
            IN IF ~called.ok THEN called
               ELSE Ok(builder_into_instructions(
                        builder_add_instruction(
                            called.value,
                            Load(original_function_type.result,
                                 pointer.value.expression, call.name))))
       ELSE LET called == builder_call(state.builder, function, state.arguments)
            IN IF ~called.ok THEN called
               ELSE Ok(builder_into_instructions(called.value))

\* call.rs:71-96: the call itself, and the slot and the load of a
\* memory-class result
transform_result(context, state, call, function, function_type) ==
    LET original_function_type == call.type_
    IN IF is_memory_class(context, original_function_type.result)
       THEN LET pointer == builder_allocate_stack(
                               state.builder, original_function_type.result)
                called == builder_call(pointer.builder, function,
                                       <<pointer.value>> \o state.arguments)
            IN IF ~called.ok THEN called
               ELSE Ok(builder_into_instructions(
                        builder_add_instruction(
                            called.value,
                            Load(original_function_type.result,
                                 pointer.value.expression, call.name))))
       ELSE Ok(builder_into_instructions(
                builder_add_instruction(
                    state.builder,
                    Call(function_type, function.expression,
                         [i \in 1..Len(state.arguments) |->
                             state.arguments[i].expression],
                         call.name))))

\* transform_call with the call emitted against the original function type
transform_call_original_type(context, call) ==
    LET builder == InstructionBuilder(NameGenerator(call.name \o "_c_"))
        original_function_type == call.type_
        function == TypedExpression(call.function, original_function_type)
        state == transform_arguments(
                     context, [builder |-> builder, arguments |-> <<>>],
                     call.arguments, original_function_type.arguments, 1)
    IN transform_result(context, state, call, function, original_function_type)

\* call.rs:41-97: a call of a function of the Target calling convention
transform_call(context, call) ==
    LET builder == InstructionBuilder(NameGenerator(call.name \o "_c_"))
        original_function_type == call.type_
        function_type == transform_function(context, original_function_type)
        function == TypedExpression(call.function, function_type)
        state == transform_arguments(
                     context, [builder |-> builder, arguments |-> <<>>],
                     call.arguments, original_function_type.arguments, 1)
    IN transform_result(context, state, call, function, function_type)

\* transform_if as the arm of any other instruction: the If is cloned with
\* its blocks as they are
transform_if_cloned(context, if_) == Ok(<<if_>>)

\* transform_if with the else block cloned instead of transformed
transform_if_else_cloned(context, if_) ==
    LET then == transform_block(context, if_.then)
    IN IF ~then.ok THEN then
       ELSE Ok(<<If(if_.type_, if_.condition, then.value, if_.else_, if_.name)>>)

\* transform_if with the transformed blocks in each other's place
transform_if_swapped(context, if_) ==
    LET then == transform_block(context, if_.then)
    IN IF ~then.ok THEN then
       ELSE LET else_ == transform_block(context, if_.else_)
            IN IF ~else_.ok THEN else_
               ELSE Ok(<<If(if_.type_, if_.condition, else_.value, then.value,
                            if_.name)>>)

\* call.rs:98-105: an If, with both of its blocks transformed
transform_if(context, if_) ==
    LET then == transform_block(context, if_.then)
    IN IF ~then.ok THEN then
       ELSE LET else_ == transform_block(context, if_.else_)
            IN IF ~else_.ok THEN else_
               ELSE Ok(<<If(if_.type_, if_.condition, then.value, else_.value,
                            if_.name)>>)

\* transform_instruction without the guard on the calling convention
transform_instruction_any_call(context, instruction) ==
    IF instruction.op = "Call"
    THEN transform_call(context, instruction)
    ELSE IF instruction.op = "If"
    THEN transform_if(context, instruction)
    ELSE Ok(<<instruction>>)

\* call.rs:36-108
transform_instruction(context, instruction) ==
    IF /\ instruction.op = "Call"
       /\ instruction.type_.calling_convention = "Target"
    THEN transform_call(context, instruction)
    ELSE IF instruction.op = "If"
    THEN transform_if(context, instruction)
    ELSE Ok(<<instruction>>)

\* call.rs:24-28: map(transform_instruction).collect::<Result<Vec<_>, _>>(),
\* from instruction i on: the first error, or all the vectors
collect_results(context, instructions, i) ==
    IF i > Len(instructions) THEN Ok(<<>>)
    ELSE LET first == transform_instruction(context, instructions[i])
         IN IF ~first.ok THEN first
            ELSE LET rest == collect_results(context, instructions, i + 1)
                 IN IF ~rest.ok THEN rest
                    ELSE Ok(<<first.value>> \o rest.value)

\* flatten with the vectors joined last to first
RECURSIVE flatten_reversed(_)
flatten_reversed(vectors) ==
    IF vectors = <<>> THEN <<>>
    ELSE flatten_reversed(Tail(vectors)) \o Head(vectors)

\* call.rs:29-31: into_iter().flatten().collect()
flatten(vectors) ==
    IF vectors = <<>> THEN <<>>
    ELSE Head(vectors) \o flatten(Tail(vectors))

transform_block(context, block) ==
    LET collected == collect_results(context, block.instructions, 1)
    IN IF ~collected.ok THEN collected
       ELSE Ok(Block(flatten(collected.value), block.terminal_instruction))

transform_function_definition(context, d) ==
    LET body == transform_block(context, d.body)
    IN IF ~body.ok THEN body
       ELSE Ok(FunctionDefinition(d.name, d.arguments, d.result_type,
                                  body.value, d.options))

(***************************************************************************)
(* The definitions handed to the pass: every body of size at most MaxSize   *)
(* built of calls of either calling convention, with arguments and results  *)
(* of and not of memory class, of stack allocations and of Ifs nested to    *)
(* any depth the size allows.  Calls are well typed: one argument           *)
(* expression per argument type.                                            *)
(***************************************************************************)
CallingConventions == {"Source", "Target"}
ArgumentTypes == {Integer64, Record3}
ResultTypes == {Integer64, Record3}
CallNames == {"x", "y"}

\* The argument expression at position i of a call
ArgumentExpression(i) == Variable("a" \o ToString(i))

\* The calls of n arguments
Calls(n) ==
    { Call(Function(types_, result_, convention), Variable("g"),
           [i \in 1..n |-> ArgumentExpression(i)], n_) :
        types_ \in [1..n -> ArgumentTypes], result_ \in ResultTypes,
        convention \in CallingConventions, n_ \in CallNames }

\* The instructions of size n other than If
Leaves(n) ==
    Calls(n - 1) \cup (IF n = 1 THEN {AllocateStack(Integer64, "x_c_0")} ELSE {})

ThenReturn == Return(Integer64, Variable("x"))
ElseReturn == Return(Integer64, Variable("y"))

RECURSIVE InstructionSequences(_)

\* The instruction sequences of size exactly n
InstructionSequences(n) ==
    IF n = 0 THEN {<<>>}
    ELSE UNION { { <<leaf>> \o rest :
                     leaf \in Leaves(w), rest \in InstructionSequences(n - w) } :
                 w \in 1..n }
         \cup
         UNION { { <<If(Integer64, Variable("c"), Block(then, ThenReturn),
                        Block(else_, ElseReturn), "z")>> \o rest :
                     then \in InstructionSequences(sizes[1]),
                     else_ \in InstructionSequences(sizes[2]),
                     rest \in InstructionSequences(n - 1 - sizes[1] - sizes[2]) } :
                 sizes \in { ss \in (0..(n - 1)) \X (0..(n - 1)) :
                               ss[1] + ss[2] <= n - 1 } }

\* The signatures of the definitions: without and with memory-class types
Signatures ==
    { [arguments |-> <<>>, result_type |-> Integer64],
      [arguments |-> <<Argument("p", Record3)>>, result_type |-> Record3] }

Definitions ==
    { FunctionDefinition(
          "f", signature.arguments, signature.result_type,
          Block(instructions, Return(signature.result_type, Variable("r"))),
          FunctionDefinitionOptions(convention)) :
        signature \in Signatures,
        instructions \in UNION { InstructionSequences(n) : n \in 0..MaxSize },
        convention \in CallingConventions }

(***************************************************************************)
(* The state machine: a definition is handed to the pass, which returns.    *)
(***************************************************************************)
NoResult == [ok |-> FALSE, error |-> "NotRun"]

\* No module-level builder is at work while the pass runs
NoBuilder ==
    /\ module_builder = None
    /\ frames = <<>>
    /\ outcome = None
    /\ names = <<>>
    /\ calls = <<>>

Init ==
    /\ definition \in Definitions
    /\ result = NoResult
    /\ pc = "start"
    /\ NoBuilder

\* transform_function_definition(&Context::new(WORD_BYTES), &definition)
Transform ==
    /\ pc = "start"
    /\ result' = transform_function_definition(Context(WORD_BYTES), definition)
    /\ pc' = "done"
    /\ UNCHANGED definition
    /\ UNCHANGED builder_vars

Next == Transform

Spec == Init /\ [][Next]_vars

(***************************************************************************)
(* What the properties below speak about.                                   *)
(***************************************************************************)
TestContext == Context(WORD_BYTES)

Done == pc = "done"

Range(sequence) == { sequence[i] : i \in 1..Len(sequence) }

RECURSIVE InstructionsIn(_)

\* The instructions of a block, at any depth of If nesting
InstructionsIn(block) ==
    UNION { {instruction} \cup
            (IF instruction.op = "If"
             THEN InstructionsIn(instruction.then) \cup InstructionsIn(instruction.else_)
             ELSE {}) :
            instruction \in Range(block.instructions) }

IsTargetCall(instruction) ==
    /\ instruction.op = "Call"
    /\ instruction.type_.calling_convention = "Target"

TargetCalls(block) == { i \in InstructionsIn(block) : IsTargetCall(i) }

IsMemoryClass(type_) == is_memory_class(TestContext, type_)

\* The instructions the pass emits in place of one instruction
Replacement(instruction) == transform_instruction(TestContext, instruction).value

\* Where the calls are among the instructions emitted for a call
CallIndices(out) == { k \in 1..Len(out) : out[k].op = "Call" }

\* The rewritten call among the instructions emitted for a call
RewrittenCall(out) == out[CHOOSE k \in CallIndices(out) : TRUE]

\* How often a name is bound among the instructions emitted for a call
Bindings(out, n) == { k \in 1..Len(out) : name(out[k]) = Some(n) }

\* 1 when the result of the call is of memory class: the place the pointer
\* to the result takes at the head of the arguments
ResultShift(call) == IF IsMemoryClass(call.type_.result) THEN 1 ELSE 0

\* The argument i of the call was spilled to a fresh stack slot before the
\* rewritten call, which receives the pointer to the slot at position j
SpilledAt(call, out, i, j) ==
    \E a, s, c \in 1..Len(out) :
        /\ a < s /\ s < c
        /\ out[a].op = "AllocateStack"
        /\ out[a].type_ = call.type_.arguments[i]
        /\ Bindings(out, out[a].name) = {a}
        /\ out[a].name # call.name
        /\ out[s] = Store(call.type_.arguments[i], call.arguments[i],
                          Variable(out[a].name))
        /\ CallIndices(out) = {c}
        /\ j <= Len(out[c].arguments)
        /\ out[c].arguments[j] = Variable(out[a].name)

\* The argument i of the call is passed as it was at position j
UnchangedAt(call, out, i, j) ==
    /\ Cardinality(CallIndices(out)) = 1
    /\ j <= Len(RewrittenCall(out).arguments)
    /\ RewrittenCall(out).arguments[j] = call.arguments[i]

\* Every argument of the call is passed, spilled or not, at its position
\* moved by shift
ArgumentsPassed(call, out, shift) ==
    \A i \in 1..Len(call.arguments) :
        IF IsMemoryClass(call.type_.arguments[i])
        THEN SpilledAt(call, out, i, i + shift)
        ELSE UnchangedAt(call, out, i, i + shift)

(***************************************************************************)
(* C1.  For every Target call, an argument of memory class is stored in a   *)
(* fresh stack slot whose pointer is passed in its place, every other       *)
(* argument is passed unchanged, and the allocations and stores precede     *)
(* the rewritten call.                                                      *)
(***************************************************************************)
\* C1 as stated: every argument of a Target call is passed at the same
\* position of the rewritten call, a memory-class one as the pointer to a
\* fresh slot that holds it, any other unchanged.
C1_ArgumentsAtSamePosition ==
    Done =>
        \A call \in TargetCalls(definition.body) :
            ArgumentsPassed(call, Replacement(call), 0)

\* C1: every argument keeps its position among the arguments of the
\* rewritten call, after the pointer to the result when the result is of
\* memory class: a memory-class argument as the pointer to a fresh slot that
\* holds it, allocated and stored before the call, any other unchanged.
C1_ArgumentsPassedInPlace ==
    Done =>
        \A call \in TargetCalls(definition.body) :
            ArgumentsPassed(call, Replacement(call), ResultShift(call))

\* The pass has rewritten a call with a memory-class result and with an
\* argument of memory class and one that is not.
C1_Witness ==
    /\ Done
    /\ result.ok
    /\ \E call \in TargetCalls(definition.body) :
        /\ IsMemoryClass(call.type_.result)
        /\ \E i, j \in 1..Len(call.arguments) :
            /\ IsMemoryClass(call.type_.arguments[i])
            /\ ~IsMemoryClass(call.type_.arguments[j])
        /\ \E instruction \in InstructionsIn(result.value.body) :
            instruction.op = "Store"

(***************************************************************************)
(* C2.  For every Target call with a memory-class result the pass emits,    *)
(* in this order, an AllocateStack of the result type with a fresh name, a  *)
(* call with a fresh name and a void result whose arguments are the         *)
(* pointer to that slot and then the rewritten original arguments in their  *)
(* order, and a Load of the result type from the slot under the name of     *)
(* the original call.                                                       *)
(***************************************************************************)
ResultThroughMemory(call, out) ==
    LET n == Len(out)
    IN /\ n >= 3
       /\ out[n - 2].op = "AllocateStack"
       /\ out[n - 2].type_ = call.type_.result
       /\ Bindings(out, out[n - 2].name) = {n - 2}
       /\ out[n - 2].name # call.name
       /\ out[n - 1].op = "Call"
       /\ Bindings(out, out[n - 1].name) = {n - 1}
       /\ out[n - 1].name # call.name
       /\ out[n - 1].function = call.function
       /\ out[n - 1].type_.result = void_type
       /\ Len(out[n - 1].arguments) = Len(call.arguments) + 1
       /\ out[n - 1].arguments[1] = Variable(out[n - 2].name)
       /\ ArgumentsPassed(call, out, 1)
       /\ out[n] = Load(call.type_.result, Variable(out[n - 2].name), call.name)

\* C2: the instructions that replace a Target call with a memory-class
\* result end with the allocation of a fresh slot of the result type, the
\* void call under a fresh name that takes the pointer to the slot before
\* the rewritten arguments, and the load of the slot under the name of the
\* original call, in this order.
C2_ResultThroughMemory ==
    Done =>
        \A call \in TargetCalls(definition.body) :
            IsMemoryClass(call.type_.result) =>
                ResultThroughMemory(call, Replacement(call))

\* The pass has rewritten a call with a memory-class result and two
\* arguments, and its output loads the result.
C2_Witness ==
    /\ Done
    /\ result.ok
    /\ \E call \in TargetCalls(definition.body) :
        /\ IsMemoryClass(call.type_.result)
        /\ Len(call.arguments) = 2
        /\ \E instruction \in InstructionsIn(result.value.body) :
            /\ instruction.op = "Load"
            /\ instruction.name = call.name

(***************************************************************************)
(* C3.  After the pass succeeds, no call of a Target function in the        *)
(* resulting body, at any depth of If nesting, has a memory-class argument  *)
(* type or a memory-class result type in its function type.                 *)
(***************************************************************************)
NoMemoryClassInSignature(function_type) ==
    /\ ~IsMemoryClass(function_type.result)
    /\ \A i \in 1..Len(function_type.arguments) :
        ~IsMemoryClass(function_type.arguments[i])

\* C3: once the pass has returned Ok, no Target call of the body it
\* returned, at any depth, has a memory-class argument or result type.
C3_NoMemoryClassTargetCall ==
    (Done /\ result.ok) =>
        \A call \in TargetCalls(result.value.body) :
            NoMemoryClassInSignature(call.type_)

\* The pass has succeeded on a body with an If inside an If, the inner one
\* with a Target call with a memory-class result, and the output has a
\* Target call.
C3_Witness ==
    /\ Done
    /\ result.ok
    /\ \E i \in Range(definition.body.instructions) :
        /\ i.op = "If"
        /\ \E j \in Range(i.else_.instructions) :
            /\ j.op = "If"
            /\ \E call \in TargetCalls(j.then) :
                ~NoMemoryClassInSignature(call.type_)
    /\ TargetCalls(result.value.body) # {}

(***************************************************************************)
(* C4.  After the pass, the signature of a definition of the Target         *)
(* calling convention is rewritten: a memory-class argument type becomes a  *)
(* pointer to it and a memory-class result type leaves the return           *)
(* position, so that the definition agrees with the native signature of     *)
(* the rewritten call sites of that function.                               *)
(***************************************************************************)
\* FunctionDefinition::type_
definition_type(d) ==
    Function([i \in 1..Len(d.arguments) |-> d.arguments[i].type_],
             d.result_type, d.options.calling_convention)

\* C4 as stated: the type of the definition the pass returns for a Target
\* definition is the native function type of the type of its input, the one
\* the rewritten call sites of the function are emitted against.
C4_DefinitionSignatureRewritten ==
    (Done /\ result.ok /\ definition.options.calling_convention = "Target") =>
        definition_type(result.value)
            = transform_function(TestContext, definition_type(definition))

(***************************************************************************)
(* C5.  The function type of the rewritten call is the original one with    *)
(* each memory-class argument type replaced by a pointer to it and every    *)
(* other argument type in place; it has one argument more, the leading      *)
(* pointer to the result, and a void result when the original result type   *)
(* is of memory class, and as many arguments otherwise; its calling         *)
(* convention is Target.                                                    *)
(***************************************************************************)
NativeSignature(original, native) ==
    LET shift == IF IsMemoryClass(original.result) THEN 1 ELSE 0
    IN /\ native.kind = "Function"
       /\ native.calling_convention = "Target"
       /\ Len(native.arguments) = Len(original.arguments) + shift
       /\ \A i \in 1..Len(original.arguments) :
            native.arguments[i + shift] =
                IF IsMemoryClass(original.arguments[i])
                THEN Pointer(original.arguments[i])
                ELSE original.arguments[i]
       /\ IF shift = 1
          THEN /\ native.arguments[1] = Pointer(original.result)
               /\ native.result = void_type
          ELSE native.result = original.result

\* C5: the one call emitted for a Target call has the native signature of
\* the original function type.
C5_NativeFunctionType ==
    Done =>
        \A call \in TargetCalls(definition.body) :
            /\ Cardinality(CallIndices(Replacement(call))) = 1
            /\ NativeSignature(call.type_, RewrittenCall(Replacement(call)).type_)

\* The pass has rewritten a call with a memory-class result, and one with
\* an argument type of memory class next to one that is not, and the
\* output has a call with a pointer argument type.
C5_Witness ==
    /\ Done
    /\ result.ok
    /\ \E call \in TargetCalls(definition.body) :
        /\ \/ IsMemoryClass(call.type_.result)
           \/ \E i, j \in 1..Len(call.type_.arguments) :
                /\ IsMemoryClass(call.type_.arguments[i])
                /\ ~IsMemoryClass(call.type_.arguments[j])
        /\ \E rewritten \in TargetCalls(result.value.body) :
            /\ rewritten.function = call.function
            /\ Len(rewritten.type_.arguments) > 0
            /\ rewritten.type_.arguments[1].kind = "Pointer"

(***************************************************************************)
(* C6.  Among the instructions that replace a Target call of name n and     *)
(* result type T exactly one has the name n, it is the last one, and its    *)
(* result type is T: the Load when T is of memory class, the rewritten      *)
(* call otherwise.                                                          *)
(***************************************************************************)
NameAndTypeKept(call, out) ==
    LET last == out[Len(out)]
    IN /\ Len(out) >= 1
       /\ Bindings(out, call.name) = {Len(out)}
       /\ name(last) = Some(call.name)
       /\ result_type(last) = Some(call.type_.result)
       /\ last.op = (IF IsMemoryClass(call.type_.result) THEN "Load" ELSE "Call")

\* C6: the instructions that replace a Target call bind the name of the
\* call once, in their last instruction, whose result type is the original
\* result type.
C6_NameAndResultTypeKept ==
    Done =>
        \A call \in TargetCalls(definition.body) :
            NameAndTypeKept(call, Replacement(call))

\* The pass has rewritten a call with a memory-class result and one
\* without, and the output binds the name of the first by a Load.
C6_Witness ==
    /\ Done
    /\ result.ok
    /\ \E c1, c2 \in TargetCalls(definition.body) :
        /\ IsMemoryClass(c1.type_.result)
        /\ ~IsMemoryClass(c2.type_.result)
        /\ \E load \in InstructionsIn(result.value.body) :
            /\ load.op = "Load"
            /\ load.name = c1.name
            /\ load.type_ = c1.type_.result

(***************************************************************************)
(* C7.  The temporaries one run of the pass introduces are pairwise         *)
(* distinct and distinct from every name of the input definition, when the  *)
(* names of the input are unique.                                           *)
(***************************************************************************)
RECURSIVE NamesOf(_)

\* The names the instructions of a block bind, at any depth of If nesting,
\* in order and with repetitions
NamesOf(block) ==
    LET NamesFrom[i \in 1..(Len(block.instructions) + 1)] ==
            IF i > Len(block.instructions) THEN <<>>
            ELSE LET instruction == block.instructions[i]
                 IN (IF name(instruction).some
                     THEN <<name(instruction).value>> ELSE <<>>)
                    \o (IF instruction.op = "If"
                        THEN NamesOf(instruction.then) \o NamesOf(instruction.else_)
                        ELSE <<>>)
                    \o NamesFrom[i + 1]
    IN NamesFrom[1]

NamesUnique(block) == Cardinality(Range(NamesOf(block))) = Len(NamesOf(block))

\* C7 as stated: when no name of the input definition repeats, no name of
\* the definition the pass returns repeats.  The names of the input are kept
\* (C6) and the temporaries are added to them, so the temporaries are fresh
\* if and only if no name of the output repeats.
C7_TemporariesFresh ==
    (Done /\ result.ok /\ NamesUnique(definition.body)) =>
        NamesUnique(result.value.body)

(***************************************************************************)
(* C8.  The pass returns Ok of a definition equal to its input when the     *)
(* body has no call of a Target function at any depth, whatever the         *)
(* calling convention of the definition; and it emits every call of a       *)
(* Source function and every instruction that is neither a call nor an If   *)
(* unchanged.                                                               *)
(***************************************************************************)
\* C8: a definition with no Target call in its body is returned as it is,
\* and a Source call or an instruction that is neither a call nor an If is
\* replaced by itself.
C8_PassThrough ==
    Done =>
        /\ TargetCalls(definition.body) = {} => result = Ok(definition)
        /\ \A instruction \in InstructionsIn(definition.body) :
            (~IsTargetCall(instruction) /\ instruction.op # "If") =>
                transform_instruction(TestContext, instruction)
                    = Ok(<<instruction>>)

\* The pass has run on a definition of the Target convention whose body has
\* no Target call but has, inside an If, a Source call with a memory-class
\* argument or result, and it returned Ok.
C8_Witness ==
    /\ Done
    /\ result.ok
    /\ definition.options.calling_convention = "Target"
    /\ TargetCalls(definition.body) = {}
    /\ \E i \in Range(definition.body.instructions) :
        /\ i.op = "If"
        /\ \E call \in InstructionsIn(i.then) \cup InstructionsIn(i.else_) :
            /\ call.op = "Call"
            /\ ~NoMemoryClassInSignature(call.type_)

(***************************************************************************)
(* C9.  A Target call with no argument type and no result type of memory    *)
(* class is rewritten to exactly one instruction, equal to the original     *)
(* call; no AllocateStack, Store or Load is added.                          *)
(***************************************************************************)
\* C9: a Target call with no memory-class type in its function type is
\* replaced by itself alone, and a body that consists of it is returned as
\* it is.
C9_CompatibleCallUnchanged ==
    Done =>
        \A call \in TargetCalls(definition.body) :
            NoMemoryClassInSignature(call.type_) =>
                /\ transform_instruction(TestContext, call) = Ok(<<call>>)
                /\ definition.body.instructions = <<call>> =>
                    result = Ok(definition)

\* The pass has run on a body that is one Target call with two arguments
\* and no memory-class type, and returned a body of one call.
C9_Witness ==
    /\ Done
    /\ result.ok
    /\ Len(definition.body.instructions) = 1
    /\ IsTargetCall(definition.body.instructions[1])
    /\ NoMemoryClassInSignature(definition.body.instructions[1].type_)
    /\ Len(definition.body.instructions[1].arguments) = 2
    /\ Len(result.value.body.instructions) = 1
    /\ result.value.body.instructions[1].op = "Call"

(***************************************************************************)
(* C10.  An If is rewritten to exactly one If with the same type,           *)
(* condition and name, whose then-branch is the transformation of the       *)
(* original then-branch alone and whose else-branch that of the original    *)
(* else-branch alone, each with its own terminal instruction, at any depth  *)
(* of nesting.                                                              *)
(***************************************************************************)
\* The body the pass returns for a definition whose body is the block
BlockAlone(block) ==
    transform_function_definition(
        TestContext,
        FunctionDefinition("f", <<>>, Integer64, block,
                           FunctionDefinitionOptions("Target"))).value.body

EmptyBlock == Block(<<>>, Return(void_type, void_value))

IfRewritten(if_, out) ==
    /\ Len(out) = 1
    /\ out[1].op = "If"
    /\ out[1].type_ = if_.type_
    /\ out[1].condition = if_.condition
    /\ out[1].name = if_.name
    /\ out[1].then = BlockAlone(if_.then)
    /\ out[1].else_ = BlockAlone(if_.else_)
    /\ out[1].then.terminal_instruction = if_.then.terminal_instruction
    /\ out[1].else_.terminal_instruction = if_.else_.terminal_instruction
    \* neither branch's output depends on the other branch
    /\ Replacement([if_ EXCEPT !.else_ = EmptyBlock])[1].then = out[1].then
    /\ Replacement([if_ EXCEPT !.then = EmptyBlock])[1].else_ = out[1].else_

\* C10: every If of the input, at any depth, is replaced by one If of the
\* same type, condition and name whose branches are what the pass returns
\* for each branch alone, whatever the other branch is; so is the If of the
\* body the pass returns.
C10_IfBranchesTransformedAlone ==
    (Done /\ result.ok) =>
        /\ \A if_ \in InstructionsIn(definition.body) :
            if_.op = "If" => IfRewritten(if_, Replacement(if_))
        /\ (Len(definition.body.instructions) = 1
                /\ definition.body.instructions[1].op = "If") =>
                IfRewritten(definition.body.instructions[1],
                            result.value.body.instructions)

\* The pass has rewritten an If with Target calls of memory-class results
\* in both branches: each branch of the output holds the three instructions
\* of its own call.
C10_Witness ==
    /\ Done
    /\ result.ok
    /\ Len(definition.body.instructions) = 1
    /\ definition.body.instructions[1].op = "If"
    /\ \E call \in Range(definition.body.instructions[1].then.instructions) :
        IsTargetCall(call) /\ IsMemoryClass(call.type_.result)
    /\ \E call \in Range(definition.body.instructions[1].else_.instructions) :
        IsTargetCall(call) /\ IsMemoryClass(call.type_.result)
    /\ Len(result.value.body.instructions[1].then.instructions) = 3
    /\ Len(result.value.body.instructions[1].else_.instructions) = 3

(***************************************************************************)
(* Ill-typed definitions: bodies with a Target call whose argument          *)
(* expressions are more or fewer than the argument types of its function    *)
(* type, at the top of the body or inside a branch of an If.                *)
(***************************************************************************)
\* The most argument types and argument expressions of an ill-typed call
MaxArity == 2

\* The Target calls of n argument types and m argument expressions
MismatchedCalls(n, m) ==
    { Call(Function(types_, result_, "Target"), Variable("g"),
           [i \in 1..m |-> ArgumentExpression(i)], n_) :
        types_ \in [1..n -> ArgumentTypes], result_ \in ResultTypes,
        n_ \in CallNames }

IllTypedCalls ==
    UNION { MismatchedCalls(arity[1], arity[2]) :
            arity \in { a \in (0..MaxArity) \X (0..MaxArity) : a[1] # a[2] } }

IllTypedBodies ==
    UNION { { <<call>>,
              <<If(Integer64, Variable("c"), Block(<<call>>, ThenReturn),
                   Block(<<>>, ElseReturn), "z")>>,
              <<If(Integer64, Variable("c"), Block(<<>>, ThenReturn),
                   Block(<<call>>, ElseReturn), "z")>> } :
            call \in IllTypedCalls }

IllTypedDefinitions ==
    { FunctionDefinition(
          "f", <<>>, Integer64,
          Block(instructions, Return(Integer64, Variable("r"))),
          FunctionDefinitionOptions(convention)) :
        instructions \in IllTypedBodies, convention \in CallingConventions }

InitIllTyped ==
    /\ definition \in IllTypedDefinitions
    /\ result = NoResult
    /\ pc = "start"
    /\ NoBuilder

SpecIllTyped == InitIllTyped /\ [][Next]_vars

ArityMismatch(call) == Len(call.arguments) # Len(call.type_.arguments)

(***************************************************************************)
(* C11.  If the body has a Target call whose argument expressions are not   *)
(* as many as the argument types of its function type, the pass returns an  *)
(* error and no rewritten definition.                                       *)
(***************************************************************************)
\* C11 as stated: once the pass has returned for a body with a Target call
\* of mismatched arity, what it returned is an error.
C11_ArityMismatchIsError ==
    (Done /\ \E call \in TargetCalls(definition.body) : ArityMismatch(call)) =>
        ~result.ok

(***************************************************************************)
(* Where the replacement of each instruction lies in a transformed block.   *)
(***************************************************************************)
\* The argument types of memory class of a call
MemoryClassArguments(call) ==
    { i \in 1..Len(call.type_.arguments) :
        IsMemoryClass(call.type_.arguments[i]) }

\* How many instructions stand for an instruction after the pass: a slot and
\* a store for each argument of memory class, the call, and a slot and a load
\* around it for a result of memory class
ExpectedLength(instruction) ==
    IF IsTargetCall(instruction)
    THEN 2 * Cardinality(MemoryClassArguments(instruction))
         + (IF IsMemoryClass(instruction.type_.result) THEN 3 ELSE 1)
    ELSE 1

\* The instructions that stand for the first i of the instructions
RECURSIVE Offset(_, _)
Offset(instructions, i) ==
    IF i = 0 THEN 0
    ELSE Offset(instructions, i - 1) + ExpectedLength(instructions[i])

\* The instructions of out that stand for instruction i
Segment(instructions, out, i) ==
    SubSeq(out, Offset(instructions, i - 1) + 1, Offset(instructions, i))

\* out is the concatenation, in order, of what stands for each instruction
\* of the block in, at every depth, under the terminal instruction of in
RECURSIVE Concatenated(_, _)
Concatenated(in, out) ==
    /\ out.terminal_instruction = in.terminal_instruction
    /\ Len(out.instructions) = Offset(in.instructions, Len(in.instructions))
    /\ \A i \in 1..Len(in.instructions) :
          LET instruction == in.instructions[i]
              segment == Segment(in.instructions, out.instructions, i)
          IN IF instruction.op = "If"
             THEN /\ segment[1].op = "If"
                  /\ segment[1].type_ = instruction.type_
                  /\ segment[1].condition = instruction.condition
                  /\ segment[1].name = instruction.name
                  /\ Concatenated(instruction.then, segment[1].then)
                  /\ Concatenated(instruction.else_, segment[1].else_)
             ELSE IF IsTargetCall(instruction)
             THEN /\ segment = BlockAlone(Block(<<instruction>>,
                                    in.terminal_instruction)).instructions
                  /\ segment[Len(segment) - ResultShift(instruction)].op = "Call"
             ELSE segment = <<instruction>>

(***************************************************************************)
(* C16.  The instructions of a transformed block are the replacements of    *)
(* the original instructions, concatenated in order: none is dropped,       *)
(* duplicated or moved, what a call becomes lies in one piece where the     *)
(* call was, and the terminal instruction is the original one; a call with  *)
(* m arguments of memory class becomes 2m+1 instructions, or 2m+3 when its  *)
(* result is of memory class.                                               *)
(***************************************************************************)
C16_ConcatenationInOrder ==
    (Done /\ result.ok) => Concatenated(definition.body, result.value.body)

\* A call with one argument and a result of memory class, after another
\* instruction: the block of 2 instructions has become one of 1 + 5
C16_Witness ==
    /\ Done
    /\ result.ok
    /\ Len(definition.body.instructions) = 2
    /\ definition.body.instructions[1].op = "AllocateStack"
    /\ IsTargetCall(definition.body.instructions[2])
    /\ Cardinality(MemoryClassArguments(definition.body.instructions[2])) = 1
    /\ IsMemoryClass(definition.body.instructions[2].type_.result)
    /\ Len(result.value.body.instructions) = 6
    /\ result.value.body.instructions[1] = definition.body.instructions[1]

(***************************************************************************)
(* Definitions with two Target calls, of names, argument expressions,       *)
(* positions and If depths chosen apart from their function types.          *)
(***************************************************************************)
PairedTypes ==
    UNION { { Function(types_, result_, "Target") :
                types_ \in [1..n -> ArgumentTypes], result_ \in ResultTypes } :
            n \in 0..1 }

PairedExpressions == { Variable("a1"), Variable("b") }

PairedCall(type_, n_, expression) ==
    Call(type_, Variable("g"),
         [i \in 1..Len(type_.arguments) |-> expression], n_)

Nested(instructions) ==
    If(Integer64, Variable("c"), Block(instructions, ThenReturn),
       Block(<<>>, ElseReturn), "z")

NestedInElse(instructions) ==
    If(Integer64, Variable("c"), Block(<<>>, ThenReturn),
       Block(instructions, ElseReturn), "z")

\* The two calls side by side, the second or the first in a branch of an If,
\* the second two Ifs deep
PairedBodies(first, second) ==
    { <<first, second>>,
      <<first, Nested(<<second>>)>>,
      <<NestedInElse(<<first>>), second>>,
      <<first, Nested(<<NestedInElse(<<second>>)>>)>> }

PairedDefinitions ==
    UNION { { FunctionDefinition(
                  "f", <<>>, Integer64,
                  Block(instructions, Return(Integer64, Variable("r"))),
                  FunctionDefinitionOptions("Source")) :
                instructions \in PairedBodies(
                    PairedCall(choice[1], choice[2], choice[3]),
                    PairedCall(choice[4], choice[5], choice[6])) } :
            choice \in PairedTypes \X CallNames \X PairedExpressions
                       \X PairedTypes \X CallNames \X PairedExpressions }

InitPaired ==
    /\ definition \in PairedDefinitions
    /\ result = NoResult
    /\ pc = "start"
    /\ NoBuilder

SpecPaired == InitPaired /\ [][Next]_vars

\* out has as many instructions as stand for those of in, with an If where
\* in has one, at every depth
RECURSIVE Aligned(_, _)
Aligned(in, out) ==
    /\ Len(out.instructions) = Offset(in.instructions, Len(in.instructions))
    /\ \A i \in 1..Len(in.instructions) :
          in.instructions[i].op = "If" =>
              LET if_ == Segment(in.instructions, out.instructions, i)[1]
              IN /\ if_.op = "If"
                 /\ Aligned(in.instructions[i].then, if_.then)
                 /\ Aligned(in.instructions[i].else_, if_.else_)

\* Each Target call of in, at any depth, with the instruction of out that
\* stands where its rewritten call belongs
RECURSIVE RewrittenPairs(_, _)
RewrittenPairs(in, out) ==
    UNION { LET instruction == in.instructions[i]
                segment == Segment(in.instructions, out.instructions, i)
            IN IF instruction.op = "If"
               THEN RewrittenPairs(instruction.then, segment[1].then)
                        \cup RewrittenPairs(instruction.else_, segment[1].else_)
               ELSE IF IsTargetCall(instruction)
               THEN { [original |-> instruction,
                       rewritten |-> segment[Len(segment)
                                             - ResultShift(instruction)]] }
               ELSE {} :
            i \in 1..Len(in.instructions) }

C17_Idempotent ==
    (Done /\ result.ok) =>
        transform_function_definition(TestContext, result.value) = result

\* The pass has rewritten a call that takes and returns a record of memory
\* class, in a branch of an If, and returns its own result unchanged
C17_Witness ==
    /\ Done
    /\ result.ok
    /\ result.value # definition
    /\ \E call \in TargetCalls(definition.body) :
          /\ call \notin Range(definition.body.instructions)
          /\ call.type_.arguments = <<Record3>>
          /\ call.type_.result = Record3
    /\ transform_function_definition(TestContext, result.value).ok
    /\ transform_function_definition(TestContext, result.value).value
           = result.value

(***************************************************************************)
(* The module-level builders (build::ModuleBuilder, module_builder.rs, and  *)
(* build::ModuleState, module_state.rs).  A builder is a record of its      *)
(* fields; each method is an operator from the builder before the call to   *)
(* the builder afterwards (self) and what the call returns (value).         *)
(***************************************************************************)
VariableDeclaration(n, type_) == [name |-> n, type_ |-> type_]

FunctionDeclaration(n, type_) == [name |-> n, type_ |-> type_]

VariableDefinition(n, body, type_, options) ==
    [name |-> n, body |-> body, type_ |-> type_, options |-> options]

VariableDefinitionOptions == [linkage |-> "External", mutable |-> FALSE]

\* VariableDefinitionOptions::set_linkage, FunctionDefinitionOptions::set_linkage
set_linkage(options, linkage) == [options EXCEPT !.linkage = linkage]

Module(declarations, functions, variable_definitions, function_definitions) ==
    [variable_declarations |-> declarations,
     function_declarations |-> functions,
     variable_definitions |-> variable_definitions,
     function_definitions |-> function_definitions]

\* The four accumulation buffers of a builder
Buffers ==
    {"variable_declarations", "function_declarations",
     "variable_definitions", "function_definitions"}

\* ModuleBuilder::new
ModuleBuilder ==
    [struct |-> "ModuleBuilder",
     name_generator |-> NameGenerator("_fmm_"),
     variable_declarations |-> <<>>,
     function_declarations |-> <<>>,
     variable_definitions |-> <<>>,
     function_definitions |-> <<>>]

\* ModuleState::new.  name_generator is not a field of the struct: it is the
\* generator behind names::generate_name, which define_anonymous_function
\* draws the name from
ModuleState ==
    [struct |-> "ModuleState",
     name_generator |-> NameGenerator("_fmm_"),
     variable_declarations |-> <<>>,
     function_declarations |-> <<>>,
     variable_definitions |-> <<>>,
     function_definitions |-> <<>>]

\* ModuleBuilder::into_module, ModuleState::as_module
into_module(self) ==
    Module(self.variable_declarations, self.function_declarations,
           self.variable_definitions, self.function_definitions)

\* ModuleBuilder::declare_variable, ModuleState::declare_variable
declare_variable(self, n, type_) ==
    [self |-> [self EXCEPT !.variable_declarations =
                               Append(@, VariableDeclaration(n, type_))],
     value |-> TypedExpression(Variable(n), Pointer(type_))]

\* declare_function with the declaration pushed to the buffer of the
\* variable declarations
declare_function_among_variables(self, n, type_) ==
    [self |-> [self EXCEPT !.variable_declarations =
                               Append(@, FunctionDeclaration(n, type_))],
     value |-> TypedExpression(Variable(n), type_)]

\* ModuleBuilder::declare_function, ModuleState::declare_function
declare_function(self, n, type_) ==
    [self |-> [self EXCEPT !.function_declarations =
                               Append(@, FunctionDeclaration(n, type_))],
     value |-> TypedExpression(Variable(n), type_)]

\* ModuleBuilder::define_variable, ModuleState::define_variable
define_variable(self, n, body, options) ==
    [self |-> [self EXCEPT !.variable_definitions =
                               Append(@, VariableDefinition(
                                             n, body.expression, body.type_,
                                             options))],
     value |-> TypedExpression(Variable(n), Pointer(body.type_))]

\* generate_name with the generator read and not written back
generate_name_peeking(self) ==
    [self |-> self, value |-> generate(self.name_generator).name]

\* ModuleBuilder::generate_name
generate_name(self) ==
    LET generated == generate(self.name_generator)
    IN [self |-> [self EXCEPT !.name_generator = generated.name_generator],
        value |-> generated.name]

\* ModuleBuilder::define_anonymous_variable
define_anonymous_variable(self, body, options) ==
    LET generated == generate_name(self)
    IN define_variable(generated.self, generated.value, body,
                       set_linkage(options, "Internal"))

\* A body closure that is running: the call that runs it (op) and its
\* arguments, the instructions of the InstructionBuilder it was handed, what
\* it has returned, and the buffers the call holds under borrow_mut() while
\* the body runs
Frame(op, n, arguments, result_, options, borrows) ==
    [op |-> op, name |-> n, arguments |-> arguments, result_type |-> result_,
     options |-> options, instructions |-> <<>>, returned |-> None,
     borrows |-> borrows]

\* module_builder.rs:113-119: the arguments of FunctionDefinition::new are
\* evaluated, the body among them, with no buffer borrowed
define_function_frame(n, arguments, result_, options) ==
    Frame("define_function", n, arguments, result_, options, {})

\* module_state.rs:100-105: function_definitions.borrow_mut() is the
\* receiver of push, evaluated before the argument of push, in which the body
\* is called
ModuleState_define_anonymous_function_frame(n, arguments, result_) ==
    Frame("ModuleState::define_anonymous_function", n, arguments, result_,
          FALSE, {"function_definitions"})

\* define_function that records a definition of an empty body when the body
\* has failed
define_function_recording_failure(self, n, arguments, result_, returned, options) ==
    IF ~returned.ok
    THEN [self |-> [self EXCEPT !.function_definitions =
                        Append(@, FunctionDefinition(
                                      n, arguments, result_,
                                      Block(<<>>, Return(void_type, void_value)),
                                      options))],
          value |-> returned]
    ELSE LET function_definition ==
                 FunctionDefinition(n, arguments, result_, returned.value,
                                    options)
         IN [self |-> [self EXCEPT !.function_definitions =
                                       Append(@, function_definition)],
             value |-> Ok(TypedExpression(
                              Variable(n),
                              definition_type(function_definition)))]

\* ModuleBuilder::define_function (module_builder.rs:112-126) from the
\* return of the body on: returned is what body(InstructionBuilder) returned
define_function(self, n, arguments, result_, returned, options) ==
    IF ~returned.ok
    THEN [self |-> self, value |-> returned]
    ELSE LET function_definition ==
                 FunctionDefinition(n, arguments, result_, returned.value,
                                    options)
         IN [self |-> [self EXCEPT !.function_definitions =
                                       Append(@, function_definition)],
             value |-> Ok(TypedExpression(
                              Variable(n),
                              definition_type(function_definition)))]

\* module_builder.rs:138: the name of an anonymous function
anonymous_function_name(generated, origin_name) ==
    generated \o "_" \o origin_name

\* ModuleState::define_anonymous_function (module_state.rs:100-119) from the
\* return of the body on: block is what body(BlockState) returned
ModuleState_define_anonymous_function(self, n, arguments, block, result_) ==
    [self |-> [self EXCEPT !.function_definitions =
                   Append(@, FunctionDefinition(n, arguments, result_, block,
                                                FALSE))],
     value |-> TypedExpression(
                   Variable(n),
                   Function([i \in 1..Len(arguments) |-> arguments[i].type_],
                            result_, "Source"))]

\* The buffers under a mutable borrow: those the running calls hold
MutablyBorrowed(frames_) ==
    UNION { frames_[i].borrows : i \in 1..Len(frames_) }

(***************************************************************************)
(* The state machine of a module-level builder: the calls of its methods,   *)
(* from the code that owns the builder or from a running body, which holds  *)
(* a reference to it (the &self a closure captures, the ModuleState in the  *)
(* BlockState).  A body is run in steps: the call that takes it begins,     *)
(* the body calls the builder and returns, and the call returns.            *)
(***************************************************************************)
\* The most items in the four buffers together
MaxItems == 2

\* The most names drawn from the name generator
MaxNames == 2

\* The most bodies running inside one another
MaxDepth == 2

ItemNames == {"a", "b"}

BodyErrors == {"e1", "e2"}

\* What a call returned
Returned(op, value) == [op |-> op, value |-> value, panic |-> FALSE]

\* RefCell::borrow_mut and RefCell::borrow panic on a buffer that is
\* mutably borrowed
Panicked(op) == [op |-> op, value |-> "already borrowed", panic |-> TRUE]

InitBuilder ==
    /\ definition = None
    /\ result = NoResult
    /\ pc = "idle"
    /\ module_builder \in {ModuleBuilder, ModuleState}
    /\ frames = <<>>
    /\ outcome = Returned("new", module_builder.struct)
    /\ names = <<>>
    /\ calls = <<>>

Top == frames[Len(frames)]

Items(self) ==
    Len(self.variable_declarations) + Len(self.function_declarations)
        + Len(self.variable_definitions) + Len(self.function_definitions)

\* The builder is there to be called: it has not panicked and has not been
\* consumed, and the caller is the owner or a body that has not returned
CanCall ==
    /\ ~outcome.panic
    /\ outcome.op # "into_module"
    /\ frames # <<>> => Top.returned = None

\* There is room for one more item, counting those of the running calls
Room == Items(module_builder) + Len(frames) < MaxItems

CanGenerate == module_builder.name_generator.index < MaxNames

\* A call that starts with buffer.borrow_mut() or buffer.borrow()
Borrowing(buffer, op, effect) ==
    IF buffer \in MutablyBorrowed(frames)
    THEN /\ outcome' = Panicked(op)
         /\ UNCHANGED <<module_builder, frames, names, calls>>
    ELSE effect

DeclareVariable ==
    \E n \in ItemNames :
        /\ CanCall
        /\ Room
        /\ Borrowing("variable_declarations", "declare_variable",
               LET call == declare_variable(module_builder, n, Integer64)
               IN /\ module_builder' = call.self
                  /\ outcome' = Returned("declare_variable", call.value)
                  /\ calls' = Append(calls,
                                 [category |-> "variable_declarations",
                                  item |-> VariableDeclaration(n, Integer64)])
                  /\ UNCHANGED <<frames, names>>)
        /\ UNCHANGED pass_vars

DeclareFunction ==
    \E n \in ItemNames :
        /\ CanCall
        /\ Room
        /\ Borrowing("function_declarations", "declare_function",
               LET type_ == Function(<<>>, Integer64, "Source")
                   call == declare_function(module_builder, n, type_)
               IN /\ module_builder' = call.self
                  /\ outcome' = Returned("declare_function", call.value)
                  /\ calls' = Append(calls,
                                 [category |-> "function_declarations",
                                  item |-> FunctionDeclaration(n, type_)])
                  /\ UNCHANGED <<frames, names>>)
        /\ UNCHANGED pass_vars

DefineVariable ==
    \E n \in ItemNames :
        /\ CanCall
        /\ Room
        /\ Borrowing("variable_definitions", "define_variable",
               LET body == TypedExpression(Undefined(Integer64), Integer64)
                   call == define_variable(module_builder, n, body,
                                           VariableDefinitionOptions)
               IN /\ module_builder' = call.self
                  /\ outcome' = Returned("define_variable", call.value)
                  /\ calls' = Append(calls,
                                 [category |-> "variable_definitions",
                                  item |-> VariableDefinition(
                                               n, body.expression, body.type_,
                                               VariableDefinitionOptions)])
                  /\ UNCHANGED <<frames, names>>)
        /\ UNCHANGED pass_vars

DefineAnonymousVariable ==
    /\ module_builder.struct = "ModuleBuilder"
    /\ CanCall
    /\ Room
    /\ CanGenerate
    /\ Borrowing("variable_definitions", "define_anonymous_variable",
           LET body == TypedExpression(Undefined(Integer64), Integer64)
               call == define_anonymous_variable(module_builder, body,
                                                 VariableDefinitionOptions)
           IN /\ module_builder' = call.self
              /\ outcome' = Returned("define_anonymous_variable", call.value)
              /\ names' = Append(names, call.value.expression.name)
              /\ calls' = Append(calls,
                             [category |-> "variable_definitions",
                              item |-> VariableDefinition(
                                           call.value.expression.name,
                                           body.expression, body.type_,
                                           set_linkage(VariableDefinitionOptions,
                                                       "Internal"))])
              /\ UNCHANGED frames)
    /\ UNCHANGED pass_vars

GenerateName ==
    /\ module_builder.struct = "ModuleBuilder"
    /\ CanCall
    /\ CanGenerate
    /\ LET call == generate_name(module_builder)
       IN /\ module_builder' = call.self
          /\ outcome' = Returned("generate_name", call.value)
          /\ names' = Append(names, call.value)
    /\ UNCHANGED <<frames, calls>>
    /\ UNCHANGED pass_vars

\* ModuleBuilder::define_function up to the call of the body
DefineFunction ==
    \E n \in ItemNames :
        /\ module_builder.struct = "ModuleBuilder"
        /\ CanCall
        /\ Room
        /\ Len(frames) < MaxDepth
        /\ frames' = Append(frames,
                            define_function_frame(
                                n, <<>>, Integer64,
                                FunctionDefinitionOptions("Source")))
        /\ UNCHANGED <<module_builder, outcome, names, calls>>
        /\ UNCHANGED pass_vars

\* ModuleBuilder::define_anonymous_function up to the call of the body:
\* generate_name, then define_function under the name made of it
DefineAnonymousFunction ==
    \E origin_name \in ItemNames :
        /\ module_builder.struct = "ModuleBuilder"
        /\ CanCall
        /\ Room
        /\ CanGenerate
        /\ Len(frames) < MaxDepth
        /\ LET generated == generate_name(module_builder)
               n == anonymous_function_name(generated.value, origin_name)
           IN /\ module_builder' = generated.self
              /\ names' = Append(names, n)
              /\ frames' = Append(frames,
                                  define_function_frame(
                                      n, <<>>, Integer64,
                                      set_linkage(
                                          FunctionDefinitionOptions("Source"),
                                          "Internal")))
        /\ UNCHANGED <<outcome, calls>>
        /\ UNCHANGED pass_vars

\* ModuleState::define_anonymous_function up to the call of the body:
\* generate_name(), then function_definitions.borrow_mut()
StateDefineAnonymousFunction ==
    /\ module_builder.struct = "ModuleState"
    /\ CanCall
    /\ Room
    /\ CanGenerate
    /\ Len(frames) < MaxDepth
    /\ LET generated == generate_name(module_builder)
       IN /\ module_builder' = generated.self
          /\ names' = Append(names, generated.value)
          /\ IF "function_definitions" \in MutablyBorrowed(frames)
             THEN /\ outcome' = Panicked("ModuleState::define_anonymous_function")
                  /\ UNCHANGED frames
             ELSE /\ frames' = Append(frames,
                                   ModuleState_define_anonymous_function_frame(
                                       generated.value, <<>>, Integer64))
                  /\ UNCHANGED outcome
    /\ UNCHANGED calls
    /\ UNCHANGED pass_vars

\* The body appends an instruction through the InstructionBuilder it was
\* handed, which draws the name from the generator of the ModuleBuilder
\* (module_builder.rs:117, InstructionBuilder::new(self.name_generator.clone()))
BodyAllocateStack ==
    /\ frames # <<>>
    /\ Top.op = "define_function"
    /\ CanCall
    /\ CanGenerate
    /\ LET builder == [name_generator |-> module_builder.name_generator,
                       instructions |-> Top.instructions]
           allocated == builder_allocate_stack(builder, Integer64)
       IN /\ frames' = [frames EXCEPT ![Len(frames)].instructions =
                                          allocated.builder.instructions]
          /\ module_builder' =
                 [module_builder EXCEPT !.name_generator =
                                            allocated.builder.name_generator]
          /\ names' = Append(names, allocated.value.expression.name)
    /\ UNCHANGED <<outcome, calls>>
    /\ UNCHANGED pass_vars

\* The block a body returns: its instructions under a return
BodyBlock(frame) ==
    Block(frame.instructions, Return(Integer64, Undefined(Integer64)))

\* The body returns: a Result to ModuleBuilder::define_function, a Block to
\* ModuleState::define_anonymous_function
BodyReturn ==
    /\ frames # <<>>
    /\ CanCall
    /\ \E returned \in
           IF Top.op = "define_function"
           THEN {Ok(BodyBlock(Top))} \cup { Err(e) : e \in BodyErrors }
           ELSE {Ok(BodyBlock(Top))} :
         frames' = [frames EXCEPT ![Len(frames)].returned = Some(returned)]
    /\ UNCHANGED <<module_builder, outcome, names, calls>>
    /\ UNCHANGED pass_vars

Caller == SubSeq(frames, 1, Len(frames) - 1)

\* ModuleBuilder::define_function from the return of the body on
DefineFunctionReturn ==
    /\ frames # <<>>
    /\ Top.op = "define_function"
    /\ Top.returned # None
    /\ ~outcome.panic
    /\ LET returned == Top.returned.value
           call == define_function(module_builder, Top.name, Top.arguments,
                                   Top.result_type, returned, Top.options)
       IN IF returned.ok /\ "function_definitions" \in MutablyBorrowed(Caller)
          THEN /\ outcome' = Panicked("define_function")
               /\ UNCHANGED <<module_builder, frames, calls>>
          ELSE /\ module_builder' = call.self
               /\ outcome' = Returned("define_function", call.value)
               /\ frames' = Caller
               /\ calls' = IF returned.ok
                           THEN Append(calls,
                                    [category |-> "function_definitions",
                                     item |-> FunctionDefinition(
                                                  Top.name, Top.arguments,
                                                  Top.result_type,
                                                  returned.value, Top.options)])
                           ELSE calls
    /\ UNCHANGED names
    /\ UNCHANGED pass_vars

\* ModuleState::define_anonymous_function from the return of the body on:
\* the push through the borrow taken before the body, which then ends
StateDefineAnonymousFunctionReturn ==
    /\ frames # <<>>
    /\ Top.op = "ModuleState::define_anonymous_function"
    /\ Top.returned # None
    /\ ~outcome.panic
    /\ LET block == Top.returned.value.value
           call == ModuleState_define_anonymous_function(
                       module_builder, Top.name, Top.arguments, block,
                       Top.result_type)
       IN /\ module_builder' = call.self
          /\ outcome' = Returned("ModuleState::define_anonymous_function",
                                 call.value)
          /\ calls' = Append(calls,
                         [category |-> "function_definitions",
                          item |-> FunctionDefinition(
                                       Top.name, Top.arguments,
                                       Top.result_type, block, FALSE)])
    /\ frames' = Caller
    /\ UNCHANGED names
    /\ UNCHANGED pass_vars

\* ModuleBuilder::into_module(self): the builder is moved, so no body that
\* refers to it is running, and nothing is called on it afterwards
IntoModule ==
    /\ module_builder.struct = "ModuleBuilder"
    /\ CanCall
    /\ frames = <<>>
    /\ outcome' = Returned("into_module", into_module(module_builder))
    /\ UNCHANGED <<module_builder, frames, names, calls>>
    /\ UNCHANGED pass_vars

\* ModuleState::as_module(&self): each buffer is read under borrow()
AsModule ==
    /\ module_builder.struct = "ModuleState"
    /\ CanCall
    /\ Borrowing("function_definitions", "as_module",
           /\ outcome' = Returned("as_module", into_module(module_builder))
           /\ UNCHANGED <<module_builder, frames, names, calls>>)
    /\ UNCHANGED pass_vars

NextBuilder ==
    \/ DeclareVariable
    \/ DeclareFunction
    \/ DefineVariable
    \/ DefineAnonymousVariable
    \/ GenerateName
    \/ DefineFunction
    \/ DefineAnonymousFunction
    \/ StateDefineAnonymousFunction
    \/ BodyAllocateStack
    \/ BodyReturn
    \/ DefineFunctionReturn
    \/ StateDefineAnonymousFunctionReturn
    \/ IntoModule
    \/ AsModule

SpecBuilder == InitBuilder /\ [][NextBuilder]_vars

(***************************************************************************)
(* What the properties of the builders speak about.                         *)
(***************************************************************************)
\* The items the calls that have returned added to a buffer, in the order
\* of the calls
Added(category) ==
    LET added == SelectSeq(calls, LAMBDA call : call.category = category)
    IN [i \in 1..Len(added) |-> added[i].item]

IsModuleBuilder == module_builder.struct = "ModuleBuilder"

(***************************************************************************)
(* C12.  The buffers of a ModuleBuilder are append-only and keep the order  *)
(* of the calls: each of the four holds exactly the items that the          *)
(* declare_variable, declare_function, define_variable and successful       *)
(* define_function calls added to it, in call order (so that a call has     *)
(* appended one item to its own buffer and left the rest as it was), and    *)
(* into_module yields those four sequences.                                 *)
(***************************************************************************)
C12_AppendOnlyInOrder ==
    IsModuleBuilder =>
        /\ \A category \in Buffers : module_builder[category] = Added(category)
        /\ outcome.op = "into_module" =>
               \A category \in Buffers : outcome.value[category] = Added(category)

\* into_module after define_function of b, then of a, has both in that order
\* and nothing else
C12_Witness ==
    /\ IsModuleBuilder
    /\ outcome.op = "into_module"
    /\ Len(outcome.value.function_definitions) = 2
    /\ outcome.value.function_definitions[1].name = "b"
    /\ outcome.value.function_definitions[2].name = "a"
    /\ outcome.value.variable_declarations = <<>>
    /\ outcome.value.function_declarations = <<>>
    /\ outcome.value.variable_definitions = <<>>

(***************************************************************************)
(* C13.  The names produced through one ModuleBuilder never repeat: those   *)
(* generate_name returns, those define_anonymous_variable and               *)
(* define_anonymous_function give to their items, and those the             *)
(* InstructionBuilder handed to a body generates.                           *)
(***************************************************************************)
C13_NamesDistinct ==
    IsModuleBuilder =>
        \A i, j \in 1..Len(names) : i # j => names[i] # names[j]

\* An anonymous function whose body has drawn a name through its
\* InstructionBuilder
C13_Witness ==
    /\ IsModuleBuilder
    /\ names = <<"_fmm_0_a", "_fmm_1">>
    /\ frames # <<>>
    /\ Top.name = "_fmm_0_a"
    /\ Top.instructions = <<AllocateStack(Integer64, "_fmm_1")>>

(***************************************************************************)
(* C14.  While the body given to ModuleBuilder::define_function or to       *)
(* ModuleState::define_anonymous_function runs, none of the buffers of the  *)
(* builder is under a mutable borrow, and what the body declares or         *)
(* defines on the builder, a nested anonymous function included, meets no   *)
(* borrow conflict.                                                         *)
(***************************************************************************)
\* C14 as stated: no running body has a buffer borrowed around it, and no
\* call has panicked on a borrow.
C14_BodyRunsUnborrowed ==
    /\ MutablyBorrowed(frames) = {}
    /\ ~outcome.panic

(***************************************************************************)
(* C18.  When the body given to ModuleBuilder::define_function returns an   *)
(* error, define_function returns that error and none of the four buffers   *)
(* gains an entry.                                                          *)
(***************************************************************************)
C18_FailedBodyAddsNothing ==
    [][(/\ frames # <<>>
        /\ frames' # frames
        /\ Top.op = "define_function"
        /\ Top.returned # None
        /\ ~Top.returned.value.ok) =>
           /\ outcome' = Returned("define_function", Top.returned.value)
           /\ \A category \in Buffers :
                 module_builder'[category] = module_builder[category]]_vars

\* define_function has returned the error e2 of its body, in which an
\* anonymous function was defined: that one is the only definition
C18_Witness ==
    /\ IsModuleBuilder
    /\ frames = <<>>
    /\ outcome.op = "define_function"
    /\ ~outcome.value.ok
    /\ outcome.value.error = "e2"
    /\ Len(module_builder.function_definitions) = 1
    /\ module_builder.function_definitions[1].name = "_fmm_0_a"
    /\ calls = <<[category |-> "function_definitions",
                  item |-> module_builder.function_definitions[1]]>>

=============================================================================
